---- MODULE Spec2Model ----
(***************************************************************************)
(* zip_tree.py: a manifest of (path, size) lines is built into a directory *)
(* tree (sizes_to_graph), sizes and descendant counts are aggregated       *)
(* lazily (size_descendants), and a stack-based depth-first walk (dfs,     *)
(* driven by yield_zips) chooses the directories to be zipped.             *)
(*                                                                         *)
(* A path is the sequence of its components (pathlib's Path.parts); a      *)
(* component is the rank of its name in sort order.  Path(".") has no      *)
(* parts.  Sizes are counted in units of 2^39 bytes, so that one TiB       *)
(* (1024 ** 4 bytes) is 2 units.                                           *)
(***************************************************************************)
EXTENDS Integers, Sequences, FiniteSets, TLC

\* ------------------------------------------------------------ input sets
\* number of manifest lines read before the file ends
MaxRecords == 3

\* component names, by rank in sort order
Names == {1, 2}

\* depths of the file paths of the manifest
Depths == {1, 2}

\* file sizes of the manifest
Sizes == {0, 1}

\* values of max_zip_bytes and max_files_per_TiB passed to yield_zips
ZipSizes == {0, 1, 2}
Limits == {1, 5}

\* ------------------------------------------------------------ paths
ROOT == << >>

\* dict.get(...) of an attribute the node does not have
None == -1

\* 1024 ** 4 bytes, in size units
TiB == 2

RECURSIVE PathsOfLen(_)
PathsOfLen(k) ==
  IF k = 0 THEN {ROOT}
  ELSE {Append(p, c) : p \in PathsOfLen(k - 1), c \in Names}

FilePaths == UNION {PathsOfLen(k) : k \in Depths}

\* path.parents[0]
Parent(p) == SubSeq(p, 1, Len(p) - 1)

IsPrefix(p, q) == Len(p) <= Len(q) /\ SubSeq(q, 1, Len(p)) = p

ProperPrefix(p, q) == Len(p) < Len(q) /\ SubSeq(q, 1, Len(p)) = p

\* Path.__lt__: comparison of the parts, component by component
RECURSIVE PathLess(_, _)
PathLess(p, q) ==
  IF q = << >> THEN FALSE
  ELSE IF p = << >> THEN TRUE
  ELSE IF Head(p) # Head(q) THEN Head(p) < Head(q)
  ELSE PathLess(Tail(p), Tail(q))

VARIABLES
  manifest,              \* the lines read from f so far: <<[path, size], ...>>
  nodes,                 \* g.nodes
  attr,                  \* g.nodes[n]: [size, descendants], None when absent
  edges,                 \* g.edges: <<parent, child>>
  total_size,            \* total_size, then g.graph["total_size"]
  total_descendants,     \* total_descendants, then g.graph["total_descendants"]
  pc,                    \* "build", "built", "walk", "done", "raised"
  raised,                \* the exception that ended the run, "" when none
  max_zip_bytes,
  max_files_per_TiB,
  to_visit,              \* dfs's stack, top at the end
  visited,               \* the nodes popped from to_visit, in order
  output,                \* the paths yielded, in order
  archived_inode_count,
  archive_count,
  archived_size,
  final_per_TiB          \* math.ceil(final_per_TiB) as logged, None before

vars == <<manifest, nodes, attr, edges, total_size, total_descendants, pc,
          raised, max_zip_bytes, max_files_per_TiB, to_visit, visited, output,
          archived_inode_count, archive_count, archived_size, final_per_TiB>>

graph == <<nodes, edges>>
walk == <<max_zip_bytes, max_files_per_TiB, to_visit, visited, output,
          archived_inode_count, archive_count, archived_size, final_per_TiB>>

NoData == [size |-> None, descendants |-> None]

Init ==
  /\ manifest = << >>
  /\ nodes = {}
  /\ attr = << >>
  /\ edges = {}
  /\ total_size = 0
  /\ total_descendants = 0
  /\ pc = "build"
  /\ raised = ""
  /\ max_zip_bytes = 0
  /\ max_files_per_TiB = 0
  /\ to_visit = << >>
  /\ visited = << >>
  /\ output = << >>
  /\ archived_inode_count = 0
  /\ archive_count = 0
  /\ archived_size = 0
  /\ final_per_TiB = None

\* ------------------------------------------------------------ sizes_to_graph
\* (mutation: the break is taken before the edge is added)
RECURSIVE AncestorWalkBreakFirst(_, _, _, _)
AncestorWalkBreakFirst(ns, es, td, child) ==
  IF child = ROOT THEN [nodes |-> ns, edges |-> es, td |-> td]
  ELSE LET parent == Parent(child)
       IN IF parent \in ns THEN [nodes |-> ns, edges |-> es, td |-> td]
          ELSE AncestorWalkBreakFirst(ns \cup {parent},
                                      es \cup {<<parent, child>>}, td + 1, parent)

\* the loop over path.parents: add the edge parent -> child, stop at the first
\* parent already in g, count every parent that was not
RECURSIVE AncestorWalk(_, _, _, _)
AncestorWalk(ns, es, td, child) ==
  IF child = ROOT THEN [nodes |-> ns, edges |-> es, td |-> td]
  ELSE LET parent == Parent(child)
           parent_in_g == parent \in ns
           ns1 == ns \cup {parent}
           es1 == es \cup {<<parent, child>>}
       IN IF parent_in_g THEN [nodes |-> ns1, edges |-> es1, td |-> td]
          ELSE AncestorWalk(ns1, es1, td + 1, parent)

\* the manifest lists the files of one file tree: a recorded file is not a
\* directory of another record
IsFileOfTree(path) ==
  \A i \in 1..Len(manifest) :
     /\ ~ProperPrefix(manifest[i].path, path)
     /\ ~ProperPrefix(path, manifest[i].path)

\* one iteration of the loop over the lines of f
AddLeaf(path, size) ==
  /\ pc = "build"
  /\ Len(manifest) < MaxRecords
  /\ IsFileOfTree(path)
  /\ LET w == AncestorWalk(nodes \cup {path}, edges, total_descendants + 1, path)
     IN /\ nodes' = w.nodes
        /\ edges' = w.edges
        /\ total_descendants' = w.td
        /\ attr' = [n \in w.nodes |->
                      IF n = path THEN [size |-> size, descendants |-> 0]
                      ELSE IF n \in nodes THEN attr[n]
                      ELSE NoData]
  /\ total_size' = total_size + size
  /\ manifest' = Append(manifest, [path |-> path, size |-> size])
  /\ UNCHANGED <<pc, raised, walk>>

\* the file is exhausted: the totals are stored on the graph
FinishBuild ==
  /\ pc = "build"
  /\ pc' = "built"
  /\ total_descendants' = total_descendants - 1
  /\ UNCHANGED <<manifest, nodes, attr, edges, total_size, raised, walk>>

\* ------------------------------------------------------------ size_descendants
\* g.successors(node)
successors(node) == {e[2] : e \in {x \in edges : x[1] = node}}

\* the smallest path of a non-empty set of paths
MinPath(S) == CHOOSE p \in S : \A q \in S : q = p \/ PathLess(p, q)

\* size_descendants(g, node) on the attributes a: the attributes afterwards and
\* the pair returned.  "d is None or not s" recomputes a node that has no
\* descendants attribute, no size attribute, or a size of 0; the sums start
\* from "s or 0" and "d or 0".
RECURSIVE size_descendants(_, _)
RECURSIVE SumSuccessors(_, _, _, _)

\* (mutation: "s = c_s" for "s += c_s")
SumSuccessorsOverwrite(a, children, s, d) ==
  IF children = {} THEN [attr |-> a, s |-> s, d |-> d]
  ELSE LET child == MinPath(children)
           c == size_descendants(a, child)
       IN SumSuccessors(c.attr, children \ {child}, c.s, d + 1 + c.d)

\* the loop over g.successors(node)
SumSuccessors(a, children, s, d) ==
  IF children = {} THEN [attr |-> a, s |-> s, d |-> d]
  ELSE LET child == MinPath(children)
           c == size_descendants(a, child)
       IN SumSuccessors(c.attr, children \ {child}, s + c.s, d + 1 + c.d)

size_descendants(a, node) ==
  LET s == a[node].size
      d == a[node].descendants
  IN IF d = None \/ s = None \/ s = 0
     THEN LET r == SumSuccessors(a, successors(node),
                                 IF s = None THEN 0 ELSE s,
                                 IF d = None THEN 0 ELSE d)
          IN [attr |-> [r.attr EXCEPT ![node] = [size |-> r.s, descendants |-> r.d]],
              s |-> r.s, d |-> r.d]
     ELSE [attr |-> a, s |-> s, d |-> d]

\* ------------------------------------------------------------ yield_zips
\* (mutation: the bound is not strict)
to_yield_le(size, max_bytes) == size <= max_bytes

\* size < max_zip_bytes
to_yield(size, max_bytes) == size < max_bytes

\* (desc / (size / 1024 ** 4)) < max_files_per_TiB, for size > 0
density_below(size, desc, limit) == desc * TiB < limit * size

\* (mutation: the density test is dropped)
to_abort_size_only(size, desc, max_bytes, limit) == to_yield(size, max_bytes)

\* to_yield or (desc / (size / 1024 ** 4)) < max_files_per_TiB: "or" evaluates
\* the division only when to_yield is false
to_abort(size, desc, max_bytes, limit) ==
  to_yield(size, max_bytes) \/ density_below(size, desc, limit)

\* (mutation: the division is evaluated before the "or")
division_eager(size, max_bytes) == size = 0

\* the division raises ZeroDivisionError when it is evaluated with size = 0
division_raises(size, max_bytes) == ~to_yield(size, max_bytes) /\ size = 0

\* (mutation: sorted(S), without reverse=True)
RECURSIVE sorted_forward(_)
sorted_forward(S) ==
  IF S = {} THEN << >>
  ELSE LET m == MinPath(S) IN <<m>> \o sorted_forward(S \ {m})

\* sorted(S, reverse=True)
RECURSIVE sorted_reverse(_)
sorted_reverse(S) ==
  IF S = {} THEN << >>
  ELSE LET m == MinPath(S) IN Append(sorted_reverse(S \ {m}), m)

\* (mutation: the successors are pushed below an aborted node as well)
extend_always(stack, node, should_abort) ==
  stack \o sorted_reverse(successors(node))

\* to_visit after the visit of node: nothing is pushed below an aborted node
extend(stack, node, should_abort) ==
  IF should_abort THEN stack
  ELSE stack \o sorted_reverse(successors(node))

\* the first next() on yield_zips(g, ...): dfs computes the progress total with
\* node_descendants(g, ROOT) and starts the stack at ROOT
StartWalk(max_bytes, limit) ==
  /\ pc = "built"
  /\ max_zip_bytes' = max_bytes
  /\ max_files_per_TiB' = limit
  /\ IF ROOT \in nodes
     THEN /\ attr' = size_descendants(attr, ROOT).attr
          /\ to_visit' = <<ROOT>>
          /\ pc' = "walk"
          /\ raised' = ""
     ELSE /\ pc' = "raised"
          /\ raised' = "KeyError"
          /\ UNCHANGED <<attr, to_visit>>
  /\ UNCHANGED <<manifest, graph, total_size, total_descendants, visited, output,
                 archived_inode_count, archive_count, archived_size, final_per_TiB>>

\* one iteration of dfs's loop, with the body of yield_zips's for loop that runs
\* at the yield: the counters read g.nodes[node] before pbar.update queries it
Visit ==
  /\ pc = "walk"
  /\ to_visit # << >>
  /\ LET node == to_visit[Len(to_visit)]
         rest == SubSeq(to_visit, 1, Len(to_visit) - 1)
         q == size_descendants(attr, node)
         should_yield == to_yield(q.s, max_zip_bytes)
     IN /\ visited' = Append(visited, node)
        /\ IF division_raises(q.s, max_zip_bytes)
           THEN /\ pc' = "raised"
                /\ raised' = "ZeroDivisionError in yield_abort_if"
                /\ attr' = q.attr
                /\ to_visit' = rest
                /\ UNCHANGED <<output, archived_inode_count, archive_count, archived_size>>
           ELSE LET should_abort == to_abort(q.s, q.d, max_zip_bytes, max_files_per_TiB)
                IN /\ output' = IF should_yield THEN Append(output, node) ELSE output
                   /\ archive_count' = archive_count + (IF should_yield THEN 1 ELSE 0)
                   /\ archived_inode_count' =
                        archived_inode_count
                          + (IF should_yield THEN q.attr[node].descendants ELSE 0)
                   /\ archived_size' =
                        archived_size + (IF should_yield THEN q.attr[node].size ELSE 0)
                   /\ attr' = IF should_abort THEN size_descendants(q.attr, node).attr
                              ELSE q.attr
                   /\ to_visit' = extend(rest, node, should_abort)
                   /\ UNCHANGED <<pc, raised>>
  /\ UNCHANGED <<manifest, graph, total_size, total_descendants, max_zip_bytes,
                 max_files_per_TiB, final_per_TiB>>

\* math.ceil(n / d) for d > 0
ceil_div(n, d) == -((-n) \div d)

\* the code after the for loop of yield_zips: final_per_TiB divides by
\* g.graph["total_size"]
Finish ==
  /\ pc = "walk"
  /\ to_visit = << >>
  /\ IF total_size = 0
     THEN /\ pc' = "raised"
          /\ raised' = "ZeroDivisionError in final_per_TiB"
          /\ UNCHANGED final_per_TiB
     ELSE /\ pc' = "done"
          /\ final_per_TiB' =
               ceil_div(total_descendants - archived_inode_count + archive_count,
                        total_size)
          /\ UNCHANGED raised
  /\ UNCHANGED <<manifest, graph, attr, total_size, total_descendants,
                 max_zip_bytes, max_files_per_TiB, to_visit, visited, output,
                 archived_inode_count, archive_count, archived_size>>

Next ==
  \/ \E path \in FilePaths, size \in Sizes : AddLeaf(path, size)
  \/ FinishBuild
  \/ \E max_bytes \in ZipSizes, limit \in Limits : StartWalk(max_bytes, limit)
  \/ Visit
  \/ Finish

Spec == Init /\ [][Next]_vars

\* ------------------------------------------------------------ properties
\* the paths of the manifest's records, and the size the manifest gives a path
RecordPaths == {manifest[i].path : i \in 1..Len(manifest)}

DistinctPaths ==
  \A i, j \in 1..Len(manifest) : i # j => manifest[i].path # manifest[j].path

OwnSize(p) ==
  LET last == CHOOSE i \in 1..Len(manifest) :
                 /\ manifest[i].path = p
                 /\ \A j \in (i + 1)..Len(manifest) : manifest[j].path # p
  IN manifest[last].size

RECURSIVE SumOwn(_)
SumOwn(S) ==
  IF S = {} THEN 0
  ELSE LET p == CHOOSE x \in S : TRUE IN OwnSize(p) + SumOwn(S \ {p})

RECURSIVE SumRecords(_)
SumRecords(recs) ==
  IF recs = << >> THEN 0 ELSE Head(recs).size + SumRecords(Tail(recs))

\* the aggregate size and the descendant count of a node, from the tree alone
TrueSize(n) == SumOwn({p \in RecordPaths : IsPrefix(n, p)})
TrueDescendants(n) == Cardinality({m \in nodes : ProperPrefix(n, m)})

IsLeaf(n) == successors(n) = {}

LowDensity(n) == TrueDescendants(n) * TiB < max_files_per_TiB * TrueSize(n)

Count(seq, x) == Cardinality({i \in 1..Len(seq) : seq[i] = x})

Elems(seq) == {seq[i] : i \in 1..Len(seq)}

Roots(p) == {i \in 1..Len(output) : IsPrefix(output[i], p)}

\* the loop of dfs has ended
WalkFinished ==
  /\ pc \in {"walk", "done", "raised"}
  /\ raised # "KeyError"
  /\ raised # "ZeroDivisionError in yield_abort_if"
  /\ to_visit = << >>
  /\ visited # << >>

\* a node the walk pruned without yielding it
PrunedUnyielded(n) ==
  /\ n \in Elems(visited)
  /\ TrueSize(n) >= max_zip_bytes
  /\ LowDensity(n)

\* C1, as claimed: when the walk over a manifest of distinct file paths has
\* finished, every file lies under exactly one yielded path.
C1_ExactPartition ==
  (WalkFinished /\ DistinctPaths /\ max_zip_bytes > 0) =>
     \A p \in RecordPaths : Cardinality(Roots(p)) = 1

\* C1, amended: when the walk over a manifest of distinct file paths has
\* finished, every file lies under at most one yielded path, and it lies under
\* none exactly when the walk visited the file or a directory above it with an
\* aggregate size >= max_zip_bytes and a density < max_files_per_TiB.
C1_DisjointRootsAndUncovered ==
  (WalkFinished /\ DistinctPaths /\ max_zip_bytes > 0) =>
     \A p \in RecordPaths :
        /\ Cardinality(Roots(p)) <= 1
        /\ (Roots(p) = {}) <=> (\E n \in nodes : IsPrefix(n, p) /\ PrunedUnyielded(n))

C1_Witness ==
  /\ WalkFinished /\ DistinctPaths /\ max_zip_bytes > 0
  /\ \E p, q \in RecordPaths : Roots(p) = {} /\ Roots(q) # {}
  /\ \E p \in RecordPaths : Roots(p) # {} /\ output[CHOOSE i \in Roots(p) : TRUE] # p

\* C2, as claimed: every leaf the walk has popped is yielded exactly once,
\* whatever its size.
C2_LeafAlwaysEmitted ==
  max_zip_bytes > 0 =>
     \A n \in Elems(visited) : IsLeaf(n) => Count(output, n) = 1

\* C2, amended: a leaf the walk has popped is popped once; it is yielded exactly
\* once when its size is < max_zip_bytes and never when its size is
\* >= max_zip_bytes.
C2_LeafEmittedIffSmall ==
  max_zip_bytes > 0 =>
     \A n \in Elems(visited) :
        IsLeaf(n) =>
           /\ Count(visited, n) = 1
           /\ Count(output, n) = IF OwnSize(n) < max_zip_bytes THEN 1 ELSE 0

C2_Witness ==
  /\ max_zip_bytes > 0
  /\ \E n, m \in Elems(visited) :
        /\ IsLeaf(n) /\ OwnSize(n) >= max_zip_bytes
        /\ IsLeaf(m) /\ OwnSize(m) < max_zip_bytes /\ Count(output, m) = 1

\* a directory the walk has popped whose aggregate size is >= max_zip_bytes and
\* whose density is < max_files_per_TiB
SparseOversized(n) ==
  /\ n \in Elems(visited)
  /\ ~IsLeaf(n)
  /\ max_zip_bytes > 0
  /\ PrunedUnyielded(n)

NothingBelow(n) ==
  \A m \in Elems(visited) \cup Elems(output) \cup Elems(to_visit) : ~ProperPrefix(n, m)

\* C3, as claimed: a visited directory with aggregate size >= max_zip_bytes and
\* density < max_files_per_TiB is yielded, and nothing below it is visited or
\* yielded.
C3_DensityFloorEmits ==
  \A n \in nodes : SparseOversized(n) => (Count(output, n) = 1 /\ NothingBelow(n))

\* C3, amended: a visited directory with aggregate size >= max_zip_bytes and
\* density < max_files_per_TiB is not yielded, and nothing below it is visited
\* or yielded.
C3_DensityFloorPrunes ==
  \A n \in nodes : SparseOversized(n) => (Count(output, n) = 0 /\ NothingBelow(n))

C3_Witness ==
  \E n \in nodes : SparseOversized(n) /\ n # ROOT /\ to_visit = << >>

\* C4: every yielded path has an aggregate size < max_zip_bytes, and a visited
\* node whose aggregate size is max_zip_bytes is not yielded.
C4_SizeBound ==
  /\ \A i \in 1..Len(output) : TrueSize(output[i]) < max_zip_bytes
  /\ \A n \in Elems(visited) : TrueSize(n) = max_zip_bytes => Count(output, n) = 0

C4_Witness ==
  /\ output # << >>
  /\ \E n \in Elems(visited) : TrueSize(n) = max_zip_bytes /\ ~IsLeaf(n)

\* x comes before y in a preorder walk that takes siblings in ascending order:
\* they lie under two siblings and x's is the smaller
SiblingBefore(x, y) ==
  \E k \in 1..Len(x) :
     /\ k <= Len(y)
     /\ SubSeq(x, 1, k - 1) = SubSeq(y, 1, k - 1)
     /\ x[k] < y[k]

\* C5: the walk is a preorder walk (a node is popped before the nodes below it)
\* that pops siblings in ascending order, so for siblings a < b every path
\* visited or yielded under a comes before every path visited or yielded under b.
C5_OutputOrdering ==
  /\ \A i, j \in 1..Len(visited) :
        (SiblingBefore(visited[i], visited[j]) \/ ProperPrefix(visited[i], visited[j]))
           => i < j
  /\ \A i, j \in 1..Len(output) : SiblingBefore(output[i], output[j]) => i < j

C5_Witness ==
  /\ Len(output) >= 3
  /\ \E i, j, k \in 1..Len(output) :
        /\ i < j /\ j < k
        /\ Parent(output[i]) = Parent(output[j]) /\ Len(output[i]) = 2
        /\ SiblingBefore(output[j], output[k]) /\ Len(output[k]) = 1

\* C6, as claimed: after the build, total_size is the sum of the sizes of the
\* manifest's records and total_descendants is the number of nodes of the tree
\* without the root.
C6_TotalsConsistency ==
  pc # "build" =>
     /\ total_size = SumRecords(manifest)
     /\ total_descendants = Cardinality(nodes) - 1

RECURSIVE SumAttr(_, _)
SumAttr(S, descendants) ==
  IF S = {} THEN 0
  ELSE LET c == CHOOSE x \in S : TRUE
       IN (IF descendants THEN 1 + attr[c].descendants ELSE attr[c].size)
            + SumAttr(S \ {c}, descendants)

Computed(n) == attr[n].size # None /\ attr[n].descendants # None

\* C7, as claimed: whatever queries have been made (in a run with
\* max_zip_bytes > 0 that raised no exception), a node with a computed
\* aggregate holds (own size, 0) if it is a leaf and the sums over its children
\* of (size, 1 + descendants) if it is a directory.
C7_AggregateInvariant ==
  (raised = "" /\ (pc = "build" \/ max_zip_bytes > 0)) =>
     \A n \in nodes :
        Computed(n) =>
           IF IsLeaf(n)
           THEN attr[n] = [size |-> OwnSize(n), descendants |-> 0]
           ELSE (\A c \in successors(n) : Computed(c)) =>
                   /\ attr[n].size = SumAttr(successors(n), FALSE)
                   /\ attr[n].descendants = SumAttr(successors(n), TRUE)

\* C8: with max_zip_bytes > 0 the walk never raises ZeroDivisionError in
\* yield_abort_if, and below a visited node of aggregate size 0 nothing is
\* pushed or visited.
C8_ZeroSizeGuard ==
  max_zip_bytes > 0 =>
     /\ raised # "ZeroDivisionError in yield_abort_if"
     /\ \A n \in Elems(visited) : TrueSize(n) = 0 => NothingBelow(n)

C8_Witness ==
  /\ max_zip_bytes > 0
  /\ \E n \in Elems(visited) :
        TrueSize(n) = 0 /\ TrueDescendants(n) > 0 /\ n # ROOT

RECURSIVE Prefixes(_)
Prefixes(p) == IF p = ROOT THEN {ROOT} ELSE {p} \cup Prefixes(Parent(p))

\* the parent chain of n, followed along the edges, ends at ROOT
RECURSIVE LinkedToRoot(_)
LinkedToRoot(n) ==
  \/ n = ROOT
  \/ \E e \in edges : e[2] = n /\ Len(e[1]) < Len(n) /\ LinkedToRoot(e[1])

\* C9: after any sequence of records, every ancestor of every recorded path is a
\* node, every node but ROOT has exactly one parent edge, from its path without
\* the last component, and every node's parent chain ends at ROOT.
C9_TreeShape ==
  /\ \A p \in RecordPaths : Prefixes(p) \subseteq nodes
  /\ \A e \in edges : e[1] \in nodes /\ e[2] \in nodes /\ e[2] # ROOT
  /\ \A n \in nodes \ {ROOT} : {e \in edges : e[2] = n} = {<<Parent(n), n>>}
  /\ \A n \in nodes : LinkedToRoot(n)

C9_Witness ==
  \E i, j \in 1..Len(manifest) :
     /\ i < j
     /\ Len(manifest[j].path) = 2
     /\ manifest[i].path # manifest[j].path
     /\ Parent(manifest[i].path) = Parent(manifest[j].path)

\* C10, as claimed: for a non-empty manifest and positive thresholds, the code
\* after the walk computes the projected density and ends without an exception.
C10_StatisticsComplete ==
  (manifest # << >> /\ max_zip_bytes > 0 /\ WalkFinished /\ pc # "walk") =>
     /\ pc = "done"
     /\ final_per_TiB =
          ceil_div(total_descendants - archived_inode_count + archive_count,
                   total_size)
====
